---- MODULE Spec2Model ----
(***************************************************************************)
(* State-machine model of the unitedstates scrapers:                       *)
(*   - floor_update.py : UnitedStatesFloorUpdateScraper (SpecFloor)        *)
(*   - bill.py         : UnitedStatesBillScraper        (SpecBill)         *)
(*   - legislative.py  : UnitedStatesLegislativeScraper (SpecLeg)          *)
(*   - floor_update.py : bill_code_to_id on BILL_REGEX matches (SpecCite)  *)
(* Each scraper is a single-threaded generator; the parts are independent  *)
(* and each has its own specification over its own variables.              *)
(*                                                                         *)
(* Conventions: Python None is the string "None" (or a record whose kind   *)
(* is "None"); a local that has not been assigned yet is "Unbound";        *)
(* formatted strings are tuples of their parts, so that formatting is      *)
(* visible to the properties.                                              *)
(***************************************************************************)
EXTENDS Integers, Sequences, FiniteSets, TLC

VARIABLES
    \* ---- floor_update.py ----
    world,        \* set of day offsets (days before today) whose document exists
    fpc,          \* position: "scrape", "locate", "parse", "events", "done", "raised"
    i,            \* loop counter of _house_floor_update_get_latest_xml
    date,         \* candidate date, as days before today
    requested,    \* day offsets requested so far, in order
    xml,          \* value returned by the Locate step
    printed,      \* number of "Unable to retrieve XML" messages printed
    warned,       \* warnings.warn was called
    ferror,       \* exception that left the generator, or "none"
    doc,          \* parsed document: sequence of floor_action elements
    fa,           \* index of the next floor_action
    events,       \* Events yielded so far, in order
    handed,       \* what scrape() has yielded to its caller, in order
    code,         \* argument of bill_code_to_id: the citation, as its tokens
    cpc,          \* position: "call", "returned"
    bill_id,      \* value returned by bill_code_to_id, as its tokens
    \* ---- bill.py ----
    environ,      \* names of the environment variables that are set
    nFiles,       \* number of metadata files the walk will match
    bpc,          \* position: "fetch", "walk", "done", "raised"
    processes,    \* external fetch processes started, in order
    berror,       \* exception that left the generator, or "none"
    cur,          \* the metadata file of the latest loop iteration
    yielded,      \* the Bill that iteration yielded, or NoBill
    bprinted,     \* messages printed by the latest step
    visited,      \* per visited file: exception raised, Bills yielded, logged
    \* ---- legislative.py ----
    nRepos,       \* number of roster URLs passed in
    lpc,          \* position: "chambers", "repo", "person", "term", "done", "raised"
    repo,         \* number of rosters started
    nPeople,      \* person records read so far
    nTerms,       \* terms read so far
    posts,        \* the posts dict of the current roster (its values)
    person_cache, \* the person_cache defaultdict of the current roster
    person,       \* the person record being processed
    birth_date,   \* local of scrape_current_legislators
    who,          \* local: the Person of the current record
    has_term,     \* local
    term,         \* the term of the latest loop iteration
    label,        \* local
    division_id,  \* local
    post,         \* local: the Post of the latest term
    nextId,       \* next fresh object _id
    out,          \* every record yielded so far, in order
    yieldedNow,   \* the records yielded by the latest step
    rosterStart,  \* number of records yielded before the current roster
    lerror        \* exception that left the generator, or "none"

floorVars == <<world, fpc, i, date, requested, xml, printed, warned, ferror,
               doc, fa, events, handed>>

billVars == <<environ, nFiles, bpc, processes, berror, cur, yielded, bprinted,
              visited>>

legVars == <<nRepos, lpc, repo, nPeople, nTerms, posts, person_cache, person,
             birth_date, who, has_term, term, label, division_id, post,
             nextId, out, yieldedNow, rosterStart, lerror>>

citeVars == <<code, cpc, bill_id>>

vars == <<floorVars, citeVars, billVars, legVars>>

\* Python None where a response text, a file, a Bill, a Person, a Post, a
\* term or a person record is expected
NoneXml == [kind |-> "None", day |-> 0]
NoFile == [status |-> "None"]
NoBill == [kind |-> "None"]
NoPerson == [kind |-> "None"]
NoPost == [kind |-> "None"]
NoTerm == [type |-> "None"]
NoRecord == [name |-> "None"]

\* a local variable that has not been assigned yet (a string, a text)
Unbound == "Unbound"
UnboundText == <<"Unbound">>

(***************************************************************************)
(*                          floor_update.py                                *)
(***************************************************************************)

HOUSE_BACKSEARCH_DAYS == 90

\* Days before today for which the existence of a document is an input.
WorldDays == 6

\* Largest number of floor_action elements in a day document.
MaxActions == 2

NotFoundXml(d) == [kind |-> "notfound", day |-> d]
DocXml(d) == [kind |-> "doc", day |-> d]

\* The server's answer for one day: the document, or the "not found" page.
Serve(d) == IF d \in world THEN DocXml(d) ELSE NotFoundXml(d)

\* _house_floor_update_xml_for: the response text, or None after the bare
\* except has printed its message.
XmlFor(d, netfail) == IF netfail THEN NoneXml ELSE Serve(d)

\* 'The requested file was not found' not in xml  (xml is a str here)
IsFound(x) == x.kind # "notfound"

\* date = date - datetime.timedelta(days=i)
NextDateSkip(d, k) == d + k + 1
NextDate(d, k) == d + k

\* hyperlink kinds the parser looks for: a[@rel=...]
Rels == {"bill", "publaw", "vote", "report"}

\* a floor_action element: at most one hyperlink in its description
FloorActions == [rel : Rels \cup {"none"}]

Docs == UNION {[1..n -> FloorActions] : n \in 0..MaxActions}

RECURSIVE LinksFrom(_, _, _)
\* fa.xpath("//a[@rel='r']"): an absolute path, so it selects the links of
\* the whole document, in document order (as indices of their actions).
LinksFrom(d, r, k) ==
    IF k > Len(d) THEN <<>>
    ELSE (IF d[k].rel = r THEN <<k>> ELSE <<>>) \o LinksFrom(d, r, k + 1)

Links(d, r) == LinksFrom(d, r, 1)

\* the Event built for floor_action k of document d
MakeEventOwnLinks(d, k) ==
    [act |-> k,
     bills |-> IF d[k].rel = "bill" THEN <<k>> ELSE <<>>,
     laws |-> IF d[k].rel = "publaw" THEN <<k>> ELSE <<>>,
     votes |-> IF d[k].rel = "vote" THEN <<k>> ELSE <<>>,
     documents |-> IF d[k].rel = "report" THEN <<k>> ELSE <<>>]
MakeEvent(d, k) ==
    [act |-> k,
     bills |-> Links(d, "bill"),
     laws |-> Links(d, "publaw"),
     votes |-> Links(d, "vote"),
     documents |-> Links(d, "report")]

InitFloor ==
    /\ world \in SUBSET (0..WorldDays)
    /\ fpc = "scrape"
    /\ i = 1
    /\ date = 0
    /\ requested = <<>>
    /\ xml = NoneXml
    /\ printed = 0
    /\ warned = FALSE
    /\ ferror = "none"
    /\ doc = <<>>
    /\ fa = 1
    /\ events = <<>>
    /\ handed = <<>>
    /\ code = <<>>
    /\ cpc = "idle"
    /\ bill_id = <<>>
    \* the bill scraper is not running
    /\ environ = {}
    /\ nFiles = 0
    /\ bpc = "idle"
    /\ processes = <<>>
    /\ berror = "none"
    /\ cur = NoFile
    /\ yielded = NoBill
    /\ bprinted = <<>>
    /\ visited = <<>>
    \* the legislator scraper is not running
    /\ nRepos = 0
    /\ lpc = "idle"
    /\ repo = 0
    /\ nPeople = 0
    /\ nTerms = 0
    /\ posts = {}
    /\ person_cache = {}
    /\ person = NoRecord
    /\ birth_date = Unbound
    /\ who = NoPerson
    /\ has_term = FALSE
    /\ term = NoTerm
    /\ label = UnboundText
    /\ division_id = UnboundText
    /\ post = NoPost
    /\ nextId = 1
    /\ out = <<>>
    /\ yieldedNow = <<>>
    /\ rosterStart = 0
    /\ lerror = "none"

\* the generator object returned by calling _scrape_house_floor_update()
GeneratorObject == [kind |-> "generator", of |-> "_scrape_house_floor_update"]

\* scrape(): "yield self._scrape_house_floor_update()". The call builds the
\* generator and the yield hands that object to the caller; iterating it
\* (the steps below) is then up to the caller.
Scrape ==
    /\ fpc = "scrape"
    /\ handed' = Append(handed, GeneratorObject)
    /\ fpc' = "locate"
    /\ UNCHANGED <<world, i, date, requested, xml, printed, warned, ferror,
                   doc, fa, events>>
    /\ UNCHANGED <<citeVars, billVars, legVars>>

\* One iteration of the for loop of _house_floor_update_get_latest_xml.
FetchDay(netfail) ==
    /\ fpc = "locate"
    /\ i <= HOUSE_BACKSEARCH_DAYS
    /\ requested' = Append(requested, date)
    /\ printed' = IF netfail THEN printed + 1 ELSE printed
    /\ LET resp == XmlFor(date, netfail) IN
       IF resp.kind = "None"
       THEN \* "in" applied to None raises TypeError
            /\ fpc' = "raised"
            /\ ferror' = "TypeError"
            /\ UNCHANGED <<i, date, xml>>
       ELSE IF IsFound(resp)
       THEN /\ xml' = resp
            /\ fpc' = "parse"
            /\ UNCHANGED <<i, date, ferror>>
       ELSE /\ date' = NextDate(date, i)
            /\ i' = i + 1
            /\ UNCHANGED <<fpc, xml, ferror>>
    /\ UNCHANGED <<world, warned, doc, fa, events>>
    /\ UNCHANGED <<handed, citeVars, billVars, legVars>>

\* The loop ran out: warn and fall off the end of the function (None).
SearchExhausted ==
    /\ fpc = "locate"
    /\ i > HOUSE_BACKSEARCH_DAYS
    /\ warned' = TRUE
    /\ xml' = NoneXml
    /\ fpc' = "parse"
    /\ UNCHANGED <<world, i, date, requested, printed, ferror, doc, fa, events>>
    /\ UNCHANGED <<handed, citeVars, billVars, legVars>>

\* _parse_house_floor_xml_legislative_activity up to its for loop.
ParseStart(d) ==
    /\ fpc = "parse"
    /\ IF xml.kind = "None"
       THEN \* xml.encode(encoding) on None
            /\ fpc' = "raised"
            /\ ferror' = "AttributeError"
            /\ UNCHANGED <<doc, fa>>
       ELSE /\ doc' = d
            /\ fa' = 1
            /\ fpc' = "events"
            /\ UNCHANGED ferror
    /\ UNCHANGED <<world, i, date, requested, xml, printed, warned, events>>
    /\ UNCHANGED <<handed, citeVars, billVars, legVars>>

\* One iteration of the floor_action loop: build the Event and yield it.
\* Every public-law link costs a call of _public_law_detail_scraper, which
\* fetches and searches the law's detail page; lawOk says whether those
\* calls return. When one raises, the exception leaves the generator.
YieldEvent(lawOk) ==
    /\ fpc = "events"
    /\ fa <= Len(doc)
    /\ IF Links(doc, "publaw") # <<>> /\ ~lawOk
       THEN /\ fpc' = "raised"
            /\ ferror' = "LawDetailError"
            /\ UNCHANGED <<events, fa>>
       ELSE /\ events' = Append(events, MakeEvent(doc, fa))
            /\ fa' = fa + 1
            /\ UNCHANGED <<fpc, ferror>>
    /\ UNCHANGED <<world, i, date, requested, xml, printed, warned, doc>>
    /\ UNCHANGED <<handed, citeVars, billVars, legVars>>

\* The floor_action loop is over: the generator returns.
ParseEnd ==
    /\ fpc = "events"
    /\ fa > Len(doc)
    /\ fpc' = "done"
    /\ UNCHANGED <<world, i, date, requested, xml, printed, warned, ferror,
                   doc, fa, events>>
    /\ UNCHANGED <<handed, citeVars, billVars, legVars>>

NextFloor ==
    \/ Scrape
    \/ \E netfail \in BOOLEAN : FetchDay(netfail)
    \/ SearchExhausted
    \/ \E d \in Docs : ParseStart(d)
    \/ \E lawOk \in BOOLEAN : YieldEvent(lawOk)
    \/ ParseEnd

(***************************************************************************)
(*            floor_update.py: bill_code_to_id, and BILL_REGEX             *)
(*                                                                         *)
(* A string is the sequence of its tokens: "." is a dot, " " is one        *)
(* whitespace character, every other token is a run of letters or of       *)
(* digits, so "H.R. 1234" is <<"H", ".", "R", ".", " ", "1234">>.          *)
(***************************************************************************)

\* Longest run of whitespace the pattern's \s* is taken to match.
MaxSpaces == 1

\* Most repetitions of the pattern's (\s*Res\.?)* group.
MaxRes == 1

CiteNumbers == {"1234", "3"}

\* \s* and \s? : runs of whitespace
Spaces(n) == {[k \in 1..m |-> " "] : m \in 0..n}

\* (S\.|H\.)
CitePrefixes == {<<"S", ".">>, <<"H", ".">>}

\* (\s*J\.|\s?R\.|\s?Con\.|\s*)
CiteMiddles ==
    {w \o <<"J", ".">> : w \in Spaces(MaxSpaces)}
    \cup {w \o <<"R", ".">> : w \in Spaces(1)}
    \cup {w \o <<"Con", ".">> : w \in Spaces(1)}
    \cup Spaces(MaxSpaces)

\* \s*Res\.?
CiteRes ==
    {w \o <<"Res">> \o d : w \in Spaces(MaxSpaces), d \in {<<>>, <<".">>}}

RECURSIVE CiteResRuns(_)
\* (\s*Res\.?)*  with at most n repetitions
CiteResRuns(n) ==
    IF n = 0 THEN {<<>>}
    ELSE LET shorter == CiteResRuns(n - 1) IN
         shorter \cup {r \o one : r \in shorter, one \in CiteRes}

\* the strings BILL_REGEX matches: prefix, middle, Res groups, \s*, \d+
Citations ==
    {p \o m \o r \o w \o <<n>> :
        p \in CitePrefixes, m \in CiteMiddles, r \in CiteResRuns(MaxRes),
        w \in Spaces(MaxSpaces), n \in CiteNumbers}

\* str.replace(c, '')
Remove(str, c) == SelectSeq(str, LAMBDA t : t # c)

RECURSIVE SplitFrom(_, _, _, _)
\* str.split(): the maximal runs of non-whitespace, in order
SplitFrom(str, k, word, words) ==
    LET closed == IF word = <<>> THEN words ELSE Append(words, word) IN
    IF k > Len(str) THEN closed
    ELSE IF str[k] = " " THEN SplitFrom(str, k + 1, <<>>, closed)
    ELSE SplitFrom(str, k + 1, Append(word, str[k]), words)

StrSplit(str) == SplitFrom(str, 1, <<>>, <<>>)

RECURSIVE Join(_)
\* ''.join(words)
Join(words) ==
    IF words = <<>> THEN <<>> ELSE Head(words) \o Join(Tail(words))

\* return ''.join(split[0:-1]).replace(' ', '') + ' ' + split[-1]
bill_code_to_id(c) ==
    LET split == StrSplit(Remove(c, ".")) IN
    Remove(Join(SubSeq(split, 1, Len(split) - 1)), " ")
        \o <<" ">> \o split[Len(split)]

InitCite ==
    /\ code \in Citations
    /\ cpc = "call"
    /\ bill_id = <<>>
    \* the floor-update scraper is not running
    /\ world = {}
    /\ fpc = "idle"
    /\ i = 1
    /\ date = 0
    /\ requested = <<>>
    /\ xml = NoneXml
    /\ printed = 0
    /\ warned = FALSE
    /\ ferror = "none"
    /\ doc = <<>>
    /\ fa = 1
    /\ events = <<>>
    /\ handed = <<>>
    \* the bill scraper is not running
    /\ environ = {}
    /\ nFiles = 0
    /\ bpc = "idle"
    /\ processes = <<>>
    /\ berror = "none"
    /\ cur = NoFile
    /\ yielded = NoBill
    /\ bprinted = <<>>
    /\ visited = <<>>
    \* the legislator scraper is not running
    /\ nRepos = 0
    /\ lpc = "idle"
    /\ repo = 0
    /\ nPeople = 0
    /\ nTerms = 0
    /\ posts = {}
    /\ person_cache = {}
    /\ person = NoRecord
    /\ birth_date = Unbound
    /\ who = NoPerson
    /\ has_term = FALSE
    /\ term = NoTerm
    /\ label = UnboundText
    /\ division_id = UnboundText
    /\ post = NoPost
    /\ nextId = 1
    /\ out = <<>>
    /\ yieldedNow = <<>>
    /\ rosterStart = 0
    /\ lerror = "none"

\* bill_id = bill_code_to_id(...) of _public_law_detail_scraper, on the
\* string that re.search(BILL_REGEX, ...).group(0) returned
BillCodeToId ==
    /\ cpc = "call"
    /\ bill_id' = bill_code_to_id(code)
    /\ cpc' = "returned"
    /\ UNCHANGED code
    /\ UNCHANGED <<floorVars, billVars, legVars>>

NextCite == BillCodeToId

(***************************************************************************)
(*                               bill.py                                   *)
(***************************************************************************)

TYPE_MAP ==
       ("hr" :> [chamber |-> "lower", canonical |-> "HR"]) @@
       ("hres" :> [chamber |-> "lower", canonical |-> "HRes"]) @@
       ("hconres" :> [chamber |-> "joint", canonical |-> "HConRes"]) @@
       ("hjres" :> [chamber |-> "joint", canonical |-> "HJRes"]) @@
       ("s" :> [chamber |-> "upper", canonical |-> "S"]) @@
       ("sres" :> [chamber |-> "upper", canonical |-> "SRes"]) @@
       ("sconres" :> [chamber |-> "joint", canonical |-> "SConRes"]) @@
       ("sjres" :> [chamber |-> "joint", canonical |-> "SJRes"])

VERSION_MAP ==
       ("eh" :> "Engrossed in House") @@
       ("rcs" :> "Reference Change Senate") @@
       ("iph" :> "Indefinitely Postponed House") @@
       ("cdh" :> "Committee Discharged House") @@
       ("ris" :> "Referral Instructions Senate") @@
       ("rah" :> "Referred with Amendments House") @@
       ("pwah" :> "Ordered to be Printed with House Amendment") @@
       ("ih" :> "Introduced in House") @@
       ("as" :> "Amendment Ordered to be Printed Senate") @@
       ("renr" :> "Re-enrolled Bill") @@
       ("ras" :> "Referred with Amendments Senate") @@
       ("rts" :> "Referred to Committee Senate") @@
       ("cds" :> "Committee Discharged Senate") @@
       ("sas" :> "Additional Sponsors Senate") @@
       ("lts" :> "Laid on Table in Senate") @@
       ("pap" :> "Printed as Passed") @@
       ("pp" :> "Public Print") @@
       ("rfh" :> "Referred in House") @@
       ("pav" :> "Previous Action Vitiated") @@
       ("ash" :> "Additional Sponsors House") @@
       ("pcs" :> "Placed on Calendar Senate") @@
       ("rs" :> "Reported in Senate") @@
       ("fph" :> "Failed Passage House") @@
       ("enr" :> "Enrolled Bill") @@
       ("rch" :> "Reference Change House") @@
       ("fps" :> "Failed Passage Senate") @@
       ("rh" :> "Reported in House") @@
       ("is" :> "Introduced in Senate") @@
       ("eah" :> "Engrossed Amendment House") @@
       ("reah" :> "Re-engrossed Amendment House") @@
       ("es" :> "Engrossed in Senate") @@
       ("ops" :> "Ordered to be Printed Senate") @@
       ("rth" :> "Referred to Committee House") @@
       ("fah" :> "Failed Amendment House") @@
       ("eas" :> "Engrossed Amendment Senate") @@
       ("oph" :> "Ordered to be Printed House") @@
       ("cph" :> "Considered and Passed House") @@
       ("lth" :> "Laid on Table in House") @@
       ("hds" :> "Held at Desk Senate") @@
       ("rds" :> "Received in Senate") @@
       ("ips" :> "Indefinitely Postponed Senate") @@
       ("rfs" :> "Referred in Senate") @@
       ("hdh" :> "Held at Desk House") @@
       ("ath" :> "Agreed to House") @@
       ("rih" :> "Referral Instructions House") @@
       ("pch" :> "Placed on Calendar House") @@
       ("ats" :> "Agreed to Senate") @@
       ("eph" :> "Engrossed and Deemed Passed by House") @@
       ("res" :> "Re-engrossed Amendment Senate") @@
       ("sc" :> "Sponsor Change") @@
       ("cps" :> "Considered and Passed Senate") @@
       ("rdh" :> "Received in House")

\* the two environment variables _run_unitedstates_bill_scraper reads
EnvKeys == {"US_CONGRESS_PATH", "US_VIRTENV_PYTHON_BIN_PATH"}

\* Largest number of metadata files the walk matches.
MaxFiles == 2

\* Largest number of files in one bill's text-versions directory.
MaxVersions == 2

\* Inputs: the bill_type, number and congress fields of a data.json.
BillTypes == DOMAIN TYPE_MAP \cup {"zz"}
Numbers == {"1234", "7"}
Congresses == {"113"}

\* Inputs: version_code and the keys of the urls map of a version file.
VersionCodes == {"ih", "eh", "zz"}
UrlMaps == {<<"pdf", "html">>}

\* A version file: unreadable, not JSON, or a parsed document.
VersionFiles ==
    [status : {"ioerror", "badjson"}, version_code : {"ih"}, urls : {<<>>}]
    \cup [status : {"ok"}, version_code : VersionCodes, urls : UrlMaps]

VersionDirs == UNION {[1..n -> VersionFiles] : n \in 0..MaxVersions}

\* A metadata file: unreadable, not JSON, JSON lacking a field the mapper
\* reads, or a complete document with its text-versions directory. Every
\* type and number is tried with an empty directory, and every directory
\* with one type and number.
BillFiles ==
    [status : {"ioerror", "badjson", "missingfield"}, bill_type : {"hr"},
     number : {"1234"}, congress : {"113"}, versions : {<<>>}]
    \cup [status : {"ok"}, bill_type : BillTypes, number : Numbers,
          congress : Congresses, versions : {<<>>}]
    \cup [status : {"ok"}, bill_type : {"hr"}, number : {"1234"},
          congress : Congresses, versions : VersionDirs]

\* os.environ['US_CONGRESS_PATH'] and os.environ['US_VIRTENV_PYTHON_BIN_PATH']
\* both succeed
ConfigPresentFirstOnly(env) == "US_CONGRESS_PATH" \in env
ConfigPresent(env) == \A k \in EnvKeys : k \in env

\* Bill(TYPE_MAP[bill_type]['canonical'] + ' ' + number, congress, ...,
\*      chamber=TYPE_MAP[bill_type]['chamber'])
NewBillRawType(f) ==
    [kind |-> "Bill",
     identifier |-> <<f.bill_type, " ", f.number>>,
     legislative_session |-> f.congress,
     chamber |-> TYPE_MAP[f.bill_type].chamber,
     versions |-> <<>>]
NewBill(f) ==
    [kind |-> "Bill",
     identifier |-> <<TYPE_MAP[f.bill_type].canonical, " ", f.number>>,
     legislative_session |-> f.congress,
     chamber |-> TYPE_MAP[f.bill_type].chamber,
     versions |-> <<>>]

\* the entries one version file appends to bill.versions: one per (k, v)
\* of its urls map
VersionEntries(v) ==
    [j \in 1..Len(v.urls) |->
        [type |-> v.version_code,
         name |-> VERSION_MAP[v.version_code],
         mimetype |-> v.urls[j]]]

RECURSIVE VersionLoop(_, _, _, _)
\* the loop over the text-versions directory; only IOError is caught inside
VersionLoop(vs, k, acc, msgs) ==
    IF k > Len(vs) THEN [exc |-> "none", versions |-> acc, msgs |-> msgs]
    ELSE IF vs[k].status = "ioerror"
    THEN VersionLoop(vs, k + 1, acc,
                     Append(msgs, "Unable to open or parse file"))
    ELSE IF vs[k].status = "badjson"
    THEN [exc |-> "ValueError", versions |-> acc, msgs |-> msgs]
    ELSE IF vs[k].urls # <<>> /\ vs[k].version_code \notin DOMAIN VERSION_MAP
    THEN [exc |-> "KeyError", versions |-> acc, msgs |-> msgs]
    ELSE VersionLoop(vs, k + 1, acc \o VersionEntries(vs[k]), msgs)

\* the body of the outer try for one metadata file: the exception it
\* raises (or "none"), the Bill it reaches the yield with, and the
\* messages printed on the way
BuildBill(f) ==
    IF f.status = "ioerror"
    THEN [exc |-> "IOError", bill |-> NoBill, msgs |-> <<>>]
    ELSE IF f.status = "badjson"
    THEN [exc |-> "ValueError", bill |-> NoBill, msgs |-> <<>>]
    ELSE IF f.status = "missingfield" \/ f.bill_type \notin DOMAIN TYPE_MAP
    THEN [exc |-> "KeyError", bill |-> NoBill, msgs |-> <<>>]
    ELSE LET r == VersionLoop(f.versions, 1, <<>>, <<>>) IN
         [exc |-> r.exc,
          bill |-> IF r.exc = "none"
                   THEN [NewBill(f) EXCEPT !.versions = r.versions]
                   ELSE NoBill,
          msgs |-> r.msgs]

\* the except clauses of the outer try: what each prints
Handler(exc) ==
    IF exc = "IOError" THEN <<"Unable to open file">>
    ELSE IF exc = "KeyError" THEN <<"Unable to parse file">>
    ELSE <<>>   \* bare except: traceback.format_exc() is discarded

InitBill ==
    /\ environ \in SUBSET EnvKeys
    /\ nFiles \in 0..MaxFiles
    /\ bpc = "fetch"
    /\ processes = <<>>
    /\ berror = "none"
    /\ cur = NoFile
    /\ yielded = NoBill
    /\ bprinted = <<>>
    /\ visited = <<>>
    \* the floor-update scraper is not running
    /\ world = {}
    /\ fpc = "idle"
    /\ i = 1
    /\ date = 0
    /\ requested = <<>>
    /\ xml = NoneXml
    /\ printed = 0
    /\ warned = FALSE
    /\ ferror = "none"
    /\ doc = <<>>
    /\ fa = 1
    /\ events = <<>>
    /\ handed = <<>>
    /\ code = <<>>
    /\ cpc = "idle"
    /\ bill_id = <<>>
    \* the legislator scraper is not running
    /\ nRepos = 0
    /\ lpc = "idle"
    /\ repo = 0
    /\ nPeople = 0
    /\ nTerms = 0
    /\ posts = {}
    /\ person_cache = {}
    /\ person = NoRecord
    /\ birth_date = Unbound
    /\ who = NoPerson
    /\ has_term = FALSE
    /\ term = NoTerm
    /\ label = UnboundText
    /\ division_id = UnboundText
    /\ post = NoPost
    /\ nextId = 1
    /\ out = <<>>
    /\ yieldedNow = <<>>
    /\ rosterStart = 0
    /\ lerror = "none"

\* _run_unitedstates_bill_scraper, called at the start of _scrape_bills
RunFetch(popenOk) ==
    /\ bpc = "fetch"
    /\ IF ~ConfigPresent(environ)
       THEN \* KeyError caught: the message is printed, nothing is started
            /\ bprinted' = <<"You must set environmental variables">>
            /\ bpc' = "walk"
            /\ UNCHANGED <<processes, berror>>
       ELSE IF popenOk
       THEN /\ processes' = <<"bills", "bill_versions">>
            /\ bpc' = "walk"
            /\ UNCHANGED <<bprinted, berror>>
       ELSE \* subprocess.Popen raises OSError, which is not caught
            /\ bpc' = "raised"
            /\ berror' = "OSError"
            /\ UNCHANGED <<processes, bprinted>>
    /\ UNCHANGED <<environ, nFiles, cur, yielded, visited>>
    /\ UNCHANGED <<floorVars, citeVars, legVars>>

\* One iteration of the loop over the matched metadata files.
ScrapeFile(f) ==
    /\ bpc = "walk"
    /\ Len(visited) < nFiles
    /\ LET r == BuildBill(f)
           said == r.msgs \o Handler(r.exc)
       IN /\ cur' = f
          /\ yielded' = r.bill
          /\ bprinted' = said
          /\ visited' = Append(visited,
                               [exc |-> r.exc,
                                yielded |-> IF r.bill = NoBill THEN 0 ELSE 1,
                                logged |-> Handler(r.exc) # <<>>])
    /\ UNCHANGED <<environ, nFiles, bpc, processes, berror>>
    /\ UNCHANGED <<floorVars, citeVars, legVars>>

\* find_files is exhausted: the generator returns.
WalkEnd ==
    /\ bpc = "walk"
    /\ Len(visited) = nFiles
    /\ bpc' = "done"
    /\ UNCHANGED <<environ, nFiles, processes, berror, cur, yielded,
                   bprinted, visited>>
    /\ UNCHANGED <<floorVars, citeVars, legVars>>

NextBill ==
    \/ \E popenOk \in BOOLEAN : RunFetch(popenOk)
    \/ \E f \in BillFiles : ScrapeFile(f)
    \/ WalkEnd

(***************************************************************************)
(*                           legislative.py                                *)
(***************************************************************************)

\* scrape passes two roster names to scrape_current_legislators:
\* ['legislators-current', 'legislators-historical']
NumRepos == 2

\* Largest number of person records and terms read in one run.
MaxRecords == 4

\* _id of the two Organizations kept in self.house and self.senate
HouseId == <<"organization", "house">>
SenateId == <<"organization", "senate">>

\* Inputs: the fields of a term. A term may lack district and party.
TermTypes == {"rep", "sen"}
States == {"CA"}
Districts == {0, 12}
Parties == {"Democrat"}

\* the last one has a type that is neither "rep" nor "sen"
Terms ==
    [type : TermTypes, state : States]
    \cup [type : TermTypes, state : States, district : Districts]
    \cup [type : TermTypes, state : States, party : Parties]
    \cup [type : TermTypes, state : States, district : Districts,
          party : Parties]
    \cup {[type |-> "del", state |-> "CA"]}

\* Inputs: a person record. official_full and birthday may be missing.
FullNames == {<<"Ann", " ", "Lee">>}
FirstLast == {[first |-> "Bob", last |-> "Roe"]}
Birthdays == {"1950-01-01", "1960-02-02"}

People ==
    [name : FirstLast, official_full : FullNames, birthday : Birthdays]
    \cup [name : FirstLast, official_full : FullNames]
    \cup [name : FirstLast, birthday : Birthdays]
    \cup [name : FirstLast]

\* state.lower()
Lower(st) == IF st = "CA" THEN "ca" ELSE IF st = "NY" THEN "ny" ELSE st

\* "%s" % district
Str(n) == IF n = 0 THEN "0" ELSE IF n = 12 THEN "12" ELSE "?"

\* name = person['name'].get('official_full'), else "First Last"
DisplayName(p) ==
    IF "official_full" \in DOMAIN p THEN p.official_full
    ELSE <<p.name.first, " ", p.name.last>>

\* {'rep': self.house, 'sen': self.senate}[type_]._id
Chamber(type) == IF type = "rep" THEN HouseId ELSE SenateId

\* {'rep': 'Representative', 'sen': 'Senator'}[type_]
Role(type) == IF type = "rep" THEN "Representative" ELSE "Senator"

\* the two assignments to label: for a rep with a district, for a sen
RepLabel(t) ==
    <<Role(t.type), " for District ", Str(t.district), " in ", t.state>>
SenLabel(t) == <<"Senator for ", t.state>>

\* the value of label after both if statements; old is its value before
LabelOf(t, old) ==
    IF t.type = "rep" /\ "district" \in DOMAIN t THEN RepLabel(t)
    ELSE IF t.type = "sen" THEN SenLabel(t)
    ELSE old

StateDivision(t) == <<"ocd-division/country:us/state:", Lower(t.state)>>

\* the assignments to division_id of the "rep" branch
RepDivisionAlwaysCd(t) == StateDivision(t) \o <<"/cd:", Str(t.district)>>
RepDivision(t) ==
    IF t.district # 0
    THEN StateDivision(t) \o <<"/cd:", Str(t.district)>>
    ELSE StateDivision(t)

\* the value of division_id after both if statements
DivisionOf(t, old) ==
    IF t.type = "rep" /\ "district" \in DOMAIN t THEN RepDivision(t)
    ELSE IF t.type = "sen" THEN StateDivision(t)
    ELSE old

\* if party == "Democrat": party = "Democratic"
PartyRaw(p) == p
PartyName(p) == IF p = "Democrat" THEN "Democratic" ELSE p

\* make_pseudo_id(classification="party", name=party)
PartyPseudoId(p) == <<"~", "party", p>>

\* posts.get(division_id)
PostsGetMiss(ps, d) == NoPost
PostsGet(ps, d) ==
    IF \E p \in ps : p.division_id = d
    THEN CHOOSE p \in ps : p.division_id = d
    ELSE NoPost

\* person_cache[name][birth_date] on the defaultdict of defaultdicts: a
\* missing key is inserted with the value None
CacheGet(c, n, b) ==
    IF \E e \in c : e.name = n /\ e.birth_date = b
    THEN (CHOOSE e \in c : e.name = n /\ e.birth_date = b).value
    ELSE NoPerson
CacheTouch(c, n, b) ==
    IF \E e \in c : e.name = n /\ e.birth_date = b THEN c
    ELSE c \cup {[name |-> n, birth_date |-> b, value |-> NoPerson]}

InitLeg ==
    /\ nRepos \in 1..NumRepos
    /\ lpc = "chambers"
    /\ repo = 0
    /\ nPeople = 0
    /\ nTerms = 0
    /\ posts = {}
    /\ person_cache = {}
    /\ person = NoRecord
    /\ birth_date = Unbound
    /\ who = NoPerson
    /\ has_term = FALSE
    /\ term = NoTerm
    /\ label = UnboundText
    /\ division_id = UnboundText
    /\ post = NoPost
    /\ nextId = 1
    /\ out = <<>>
    /\ yieldedNow = <<>>
    /\ rosterStart = 0
    /\ lerror = "none"
    \* the floor-update scraper is not running
    /\ world = {}
    /\ fpc = "idle"
    /\ i = 1
    /\ date = 0
    /\ requested = <<>>
    /\ xml = NoneXml
    /\ printed = 0
    /\ warned = FALSE
    /\ ferror = "none"
    /\ doc = <<>>
    /\ fa = 1
    /\ events = <<>>
    /\ handed = <<>>
    /\ code = <<>>
    /\ cpc = "idle"
    /\ bill_id = <<>>
    \* the bill scraper is not running
    /\ environ = {}
    /\ nFiles = 0
    /\ bpc = "idle"
    /\ processes = <<>>
    /\ berror = "none"
    /\ cur = NoFile
    /\ yielded = NoBill
    /\ bprinted = <<>>
    /\ visited = <<>>

\* scrape_current_chambers: the two Organizations
ScrapeChambers ==
    /\ lpc = "chambers"
    /\ yieldedNow' = <<[kind |-> "Organization", id |-> HouseId],
                       [kind |-> "Organization", id |-> SenateId]>>
    /\ out' = out \o yieldedNow'
    /\ lpc' = "repo"
    /\ UNCHANGED <<nRepos, rosterStart, repo, nPeople, nTerms, posts, person_cache, person,
                   birth_date, who, has_term, term, label, division_id, post,
                   nextId, lerror>>
    /\ UNCHANGED <<floorVars, citeVars, billVars>>

\* the head of the loop over repos: fetch the roster, reset both caches
NextRepo(fetchOk) ==
    /\ lpc = "repo"
    /\ repo < nRepos
    /\ IF fetchOk
       THEN /\ repo' = repo + 1
            /\ posts' = {}
            /\ person_cache' = {}
            /\ rosterStart' = Len(out)
            /\ lpc' = "person"
            /\ UNCHANGED lerror
       ELSE \* self.get raises; nothing catches it
            /\ lpc' = "raised"
            /\ lerror' = "RequestError"
            /\ UNCHANGED <<repo, posts, person_cache, rosterStart>>
    /\ yieldedNow' = <<>>
    /\ UNCHANGED <<nRepos, nPeople, nTerms, person, birth_date, who,
                   has_term, term, label, division_id, post, nextId, out>>
    /\ UNCHANGED <<floorVars, citeVars, billVars>>

\* the loop over repos is over: the generator returns
Finish ==
    /\ lpc = "repo"
    /\ repo = nRepos
    /\ lpc' = "done"
    /\ yieldedNow' = <<>>
    /\ UNCHANGED <<nRepos, rosterStart, repo, nPeople, nTerms, posts, person_cache, person,
                   birth_date, who, has_term, term, label, division_id, post,
                   nextId, out, lerror>>
    /\ UNCHANGED <<floorVars, citeVars, billVars>>

\* the head of the loop over people, up to the loop over terms
NextPerson(p) ==
    /\ lpc = "person"
    /\ nPeople + nTerms < MaxRecords
    /\ nPeople' = nPeople + 1
    /\ person' = p
    /\ yieldedNow' = <<>>
    /\ LET n == DisplayName(p)
           b == IF "birthday" \in DOMAIN p THEN p.birthday ELSE birth_date
       IN IF b = Unbound
          THEN \* birth_date is read before any assignment to it
               /\ lpc' = "raised"
               /\ lerror' = "UnboundLocalError"
               /\ UNCHANGED <<birth_date, person_cache, who, has_term, nextId>>
          ELSE /\ birth_date' = b
               /\ person_cache' = CacheTouch(person_cache, n, b)
               /\ has_term' = FALSE
               /\ IF CacheGet(person_cache, n, b) = NoPerson
                  THEN /\ who' = [kind |-> "Person", id |-> nextId,
                                  name |-> n, birth_date |-> b]
                       /\ nextId' = nextId + 1
                  ELSE /\ who' = CacheGet(person_cache, n, b)
                       /\ UNCHANGED nextId
               /\ lpc' = "term"
               /\ UNCHANGED lerror
    /\ UNCHANGED <<nRepos, rosterStart, repo, nTerms, posts, term, label, division_id,
                   post, out>>
    /\ UNCHANGED <<floorVars, citeVars, billVars>>

\* the roster has no more people
RosterEnd ==
    /\ lpc = "person"
    /\ lpc' = "repo"
    /\ yieldedNow' = <<>>
    /\ UNCHANGED <<nRepos, rosterStart, repo, nPeople, nTerms, posts, person_cache, person,
                   birth_date, who, has_term, term, label, division_id, post,
                   nextId, out, lerror>>
    /\ UNCHANGED <<floorVars, citeVars, billVars>>

\* one iteration of the loop over a person's terms
NextTerm(t) ==
    /\ lpc = "term"
    /\ nPeople + nTerms < MaxRecords
    /\ nTerms' = nTerms + 1
    /\ term' = t
    /\ has_term' = TRUE
    /\ IF t.type \notin {"rep", "sen"}
       THEN \* the chamber lookup raises KeyError
            /\ lpc' = "raised"
            /\ lerror' = "KeyError"
            /\ yieldedNow' = <<>>
            /\ UNCHANGED <<label, division_id, post, posts, nextId, out>>
       ELSE LET lab == LabelOf(t, label)
                div == DivisionOf(t, division_id)
            IN IF div = UnboundText
               THEN \* division_id is read before any assignment to it
                    /\ lpc' = "raised"
                    /\ lerror' = "UnboundLocalError"
                    /\ yieldedNow' = <<>>
                    /\ UNCHANGED <<label, division_id, post, posts, nextId,
                                   out>>
               ELSE LET found == PostsGet(posts, div)
                        new == [kind |-> "Post", id |-> nextId,
                                organization_id |-> Chamber(t.type),
                                division_id |-> div, label |-> lab,
                                role |-> Role(t.type)]
                        pst == IF found = NoPost THEN new ELSE found
                        seat == [kind |-> "Membership", post_id |-> pst.id,
                                 role |-> Role(t.type), label |-> lab,
                                 person_id |-> who.id,
                                 organization_id |-> Chamber(t.type)]
                        partyM == IF "party" \in DOMAIN t
                                  THEN <<[kind |-> "Membership", post_id |-> 0,
                                          role |-> "member", label |-> <<>>,
                                          person_id |-> who.id,
                                          organization_id |->
                                              PartyPseudoId(PartyName(t.party))]>>
                                  ELSE <<>>
                    IN /\ label' = lab
                       /\ division_id' = div
                       /\ post' = pst
                       /\ posts' = posts \cup {pst}
                       /\ nextId' = IF found = NoPost THEN nextId + 1 ELSE nextId
                       /\ yieldedNow' = (IF found = NoPost THEN <<new>> ELSE <<>>)
                                        \o <<seat>> \o partyM
                       /\ out' = out \o yieldedNow'
                       /\ UNCHANGED <<lpc, lerror>>
    /\ UNCHANGED <<nRepos, rosterStart, repo, nPeople, person_cache, person, birth_date, who>>
    /\ UNCHANGED <<floorVars, citeVars, billVars>>

\* after the loop over terms: the Person is yielded if it had a term
EndPerson ==
    /\ lpc = "term"
    /\ yieldedNow' = IF has_term THEN <<who>> ELSE <<>>
    /\ out' = out \o yieldedNow'
    /\ lpc' = "person"
    /\ UNCHANGED <<nRepos, rosterStart, repo, nPeople, nTerms, posts, person_cache, person,
                   birth_date, who, has_term, term, label, division_id, post,
                   nextId, lerror>>
    /\ UNCHANGED <<floorVars, citeVars, billVars>>

NextLeg ==
    \/ ScrapeChambers
    \/ \E fetchOk \in BOOLEAN : NextRepo(fetchOk)
    \/ Finish
    \/ \E p \in People : NextPerson(p)
    \/ RosterEnd
    \/ \E t \in Terms : NextTerm(t)
    \/ EndPerson

SpecLeg == InitLeg /\ [][NextLeg]_vars

SpecBill == InitBill /\ [][NextBill]_vars

SpecFloor == InitFloor /\ [][NextFloor]_vars

SpecCite == InitCite /\ [][NextCite]_vars

(***************************************************************************)
(*                      Properties: floor_update.py                        *)
(***************************************************************************)

\* today and the prior 5 days have no document, the day 6 days back has one
OnlyDaySixExists == world \cap (0..6) = {6}

\* C2: backward search. If today's and the prior 5 days' documents are
\* "not found" and day 6 exists (and no request fails), no date earlier
\* than day 6 is ever requested and the Locate step returns the day-6
\* document.
C2_BackwardSearch ==
    (OnlyDaySixExists /\ printed = 0) =>
        /\ \A k \in 1..Len(requested) : requested[k] <= 6
        /\ fpc \notin {"scrape", "locate"} => xml = DocXml(6)

C2_Witness ==
    /\ OnlyDaySixExists
    /\ printed = 0
    /\ fpc = "parse"
    /\ requested = <<0, 1, 3, 6>>
    /\ xml = DocXml(6)

\* C5: when the search budget is exhausted the ingestor warns, and its run
\* ends normally having produced no Events.
C5_ExhaustedEndsNormally ==
    (warned /\ fpc \notin {"locate", "parse"}) =>
        /\ fpc = "done"
        /\ ferror = "none"
        /\ events = <<>>

\* C6: a network failure while fetching one day's document does not abort
\* the search: after the failed fetch the search is still running (or has
\* gone on to find a document) and no exception has left it.
C6_NetFailureContinues ==
    printed > 0 => (fpc # "raised" /\ ferror = "none")

\* C11: for a located document with n floor_action elements, what
\* scrape() hands to its caller is the Events themselves: at every moment
\* of the parse the caller has received exactly the Events of the actions
\* processed so far, in document order (one per action, none held back),
\* and exactly n of them once the run is over.
C11_EventsHandedInOrder ==
    fpc \in {"events", "done"} =>
        /\ handed = events
        /\ Len(handed) = fa - 1
        /\ \A k \in 1..Len(handed) : handed[k].act = k
        /\ fpc = "done" => Len(handed) = Len(doc)

\* The generator that scrape() hands over does yield one Event per
\* floor_action, in document order, each before the next action is
\* processed.
C11_GeneratorYieldsInOrder ==
    fpc \in {"events", "done"} =>
        /\ Len(events) = fa - 1
        /\ \A k \in 1..Len(events) : events[k].act = k
        /\ fpc = "done" => Len(events) = Len(doc)

\* C13: the Locate step is a bounded retry: no document is requested for
\* a date more than HOUSE_BACKSEARCH_DAYS days before today, and at most
\* that many requests are made.
C13_BoundedBackSearch ==
    /\ Len(requested) <= HOUSE_BACKSEARCH_DAYS
    /\ \A k \in 1..Len(requested) : requested[k] <= HOUSE_BACKSEARCH_DAYS

\* What bounds the search is the number of requests: the k-th request is
\* for the day (k-1)k/2 days back, and there are at most 90 of them.
C13_RequestsBounded ==
    /\ Len(requested) <= HOUSE_BACKSEARCH_DAYS
    /\ \A k \in 1..Len(requested) : 2 * requested[k] = (k - 1) * k

\* the actions of the document that hold a hyperlink of kind r
Holders(r) == {k \in 1..Len(doc) : doc[k].rel = r}

\* the reference list refs names every holder of a link of kind r once
OnePerLink(refs, r) ==
    /\ Len(refs) = Cardinality(Holders(r))
    /\ \A k \in Holders(r) : \E j \in 1..Len(refs) : refs[j] = k

\* C14: reference lookups are scoped to the whole document: every Event
\* carries one bill / law / vote / document reference for every bill /
\* public-law / vote / report hyperlink found anywhere in the document,
\* so all Events of one document carry identical reference lists.
C14_DocumentWideReferences ==
    /\ \A k \in 1..Len(events) :
          /\ OnePerLink(events[k].bills, "bill")
          /\ OnePerLink(events[k].laws, "publaw")
          /\ OnePerLink(events[k].votes, "vote")
          /\ OnePerLink(events[k].documents, "report")
    /\ \A j, k \in 1..Len(events) :
          /\ events[j].bills = events[k].bills
          /\ events[j].laws = events[k].laws
          /\ events[j].votes = events[k].votes
          /\ events[j].documents = events[k].documents

\* two actions, the bill link in the second, the law link in the first:
\* the Event of each action carries both.
C14_Witness ==
    /\ fpc = "done"
    /\ Len(doc) = 2
    /\ doc[1].rel = "publaw"
    /\ doc[2].rel = "bill"
    /\ Len(events) = 2
    /\ events[1].bills = <<2>>
    /\ events[2].laws = <<1>>

\* "TYPE NUMBER": a non-empty type without dots or spaces, exactly one
\* space, then the number
Canonical(id) ==
    /\ Len(id) >= 3
    /\ id[Len(id)] \in CiteNumbers
    /\ id[Len(id) - 1] = " "
    /\ \A k \in 1..(Len(id) - 2) : id[k] \notin {" ", "."}

\* C15: for every citation BILL_REGEX can match, with or without
\* whitespace between the type and the number, bill_code_to_id returns the
\* canonical "TYPE NUMBER" form, with a non-empty type and no leading space.
C15_CanonicalId == cpc = "returned" => Canonical(bill_id)

\* When whitespace separates the type from the number the result is
\* canonical.
C15_CanonicalWhenSpaced ==
    (cpc = "returned" /\ code[Len(code) - 1] = " ") => Canonical(bill_id)

(***************************************************************************)
(*                          Properties: bill.py                            *)
(***************************************************************************)

\* every version file of f is readable JSON
VersionsReadable(f) ==
    \A k \in 1..Len(f.versions) : f.versions[k].status = "ok"

\* the version files of f whose version_code is in VERSION_MAP
ValidVersions(f) ==
    {k \in 1..Len(f.versions) :
        /\ f.versions[k].status = "ok"
        /\ f.versions[k].version_code \in DOMAIN VERSION_MAP}

\* every version file of f is readable JSON with a known version_code
VersionsClean(f) == ValidVersions(f) = 1..Len(f.versions)

\* a complete metadata document with a bill_type of TYPE_MAP
GoodMetadata(f) == f.status = "ok" /\ f.bill_type \in DOMAIN TYPE_MAP

\* C3: a version file with a version_code that is not in VERSION_MAP is
\* skipped alone: the Bill is still yielded, with the entries of its valid
\* version files (one per url of each), each named by the table's label.
C3_UnknownVersionSkipped ==
    (/\ GoodMetadata(cur)
     /\ VersionsReadable(cur)
     /\ ~VersionsClean(cur)) =>
        /\ yielded.kind = "Bill"
        /\ Len(yielded.versions) =
               Cardinality(ValidVersions(cur)) * Len(<<"pdf", "html">>)
        /\ \A j \in 1..Len(yielded.versions) :
               yielded.versions[j].name =
                   VERSION_MAP[yielded.versions[j].type]

\* C4: a failure on one metadata file is caught and logged, that file
\* yields no Bill, every file processed without failure yields exactly one
\* Bill, and the walk visits every matched file.
C4_FailuresCaughtAndLogged ==
    /\ \A k \in 1..Len(visited) :
          /\ visited[k].exc = "none" => visited[k].yielded = 1
          /\ visited[k].exc # "none" =>
                (visited[k].yielded = 0 /\ visited[k].logged)
    /\ bpc = "done" => Len(visited) = nFiles

\* C4 without "logged": failures are caught, the failing file yields no
\* Bill, every other file yields one, and every matched file is visited.
C4_FailuresCaughtOnly ==
    /\ \A k \in 1..Len(visited) :
          visited[k].yielded = (IF visited[k].exc = "none" THEN 1 ELSE 0)
    /\ bpc = "done" => Len(visited) = nFiles

\* C9: a metadata document whose bill_type is in TYPE_MAP yields a Bill
\* with identifier "<canonical> <number>", the document's congress as
\* session and the table's chamber; a document whose bill_type is not in
\* TYPE_MAP yields no Bill.
C9_TypeMap ==
    cur.status = "ok" =>
        /\ (GoodMetadata(cur) /\ VersionsClean(cur)) =>
              /\ yielded.kind = "Bill"
              /\ yielded.identifier =
                     <<TYPE_MAP[cur.bill_type].canonical, " ", cur.number>>
              /\ yielded.legislative_session = cur.congress
              /\ yielded.chamber = TYPE_MAP[cur.bill_type].chamber
        /\ (cur.bill_type = "hr" /\ cur.number = "1234" /\ cur.versions = <<>>) =>
              /\ yielded.kind = "Bill"
              /\ yielded.identifier = <<"HR", " ", "1234">>
              /\ yielded.legislative_session = "113"
              /\ yielded.chamber = "lower"
        /\ cur.bill_type \notin DOMAIN TYPE_MAP => yielded = NoBill

C9_Witness ==
    /\ cur.status = "ok"
    /\ cur.bill_type = "sconres"
    /\ cur.number = "7"
    /\ yielded.kind = "Bill"
    /\ yielded.identifier = <<"SConRes", " ", "7">>
    /\ yielded.chamber = "joint"

\* C10: when either configuration value is absent, no fetch process is
\* started, the message is printed, nothing is raised, and the walk still
\* visits every file on disk and yields the Bills of the good ones.
C10_MissingConfig ==
    environ # EnvKeys =>
        /\ processes = <<>>
        /\ berror = "none" /\ bpc # "raised"
        /\ (bpc # "fetch" /\ visited = <<>>) =>
              bprinted = <<"You must set environmental variables">>
        /\ bpc = "done" => Len(visited) = nFiles
        /\ (GoodMetadata(cur) /\ VersionsClean(cur)) => yielded.kind = "Bill"

C10_Witness ==
    /\ environ = {"US_CONGRESS_PATH"}
    /\ processes = <<>>
    /\ bpc = "done"
    /\ Len(visited) = 2
    /\ yielded.kind = "Bill"

(***************************************************************************)
(*                      Properties: legislative.py                         *)
(***************************************************************************)

IsPerson(r) == r.kind = "Person"
IsMembership(r) == r.kind = "Membership"

\* the Memberships yielded by the latest step
MembershipsNow == SelectSeq(yieldedNow, IsMembership)

\* the latest step processed a term to its end
TermDone ==
    /\ lerror = "none"
    /\ yieldedNow # <<>>
    /\ IsMembership(yieldedNow[Len(yieldedNow)])

\* C1: within one roster, two entries with the same display name and the
\* same birth date are merged: one Person is emitted for them, and every
\* Membership refers to an emitted Person once its entry is finished.
C1_PersonsMerged ==
    (repo = 1 /\ nPeople = 2 /\ "birthday" \in DOMAIN person) =>
        /\ \A j, k \in 1..Len(out) :
              (/\ IsPerson(out[j]) /\ IsPerson(out[k])
               /\ out[j].name = out[k].name
               /\ out[j].birth_date = out[k].birth_date) =>
                  out[j].id = out[k].id
        /\ lpc \in {"person", "repo", "done"} =>
              \A m \in 1..Len(out) :
                  IsMembership(out[m]) =>
                      \E k \in 1..Len(out) :
                          IsPerson(out[k]) /\ out[k].id = out[m].person_id

\* the division identifier of a state, and its district suffix
StateDivisionId(st) ==
    <<"ocd-division/country:us/state:", IF st = "CA" THEN "ca" ELSE "ny">>
CdSuffix(n) == <<"/cd:", IF n = 12 THEN "12" ELSE "0">>

\* C7: district rule. The seat of a "rep" term with district 0 has the
\* state's division identifier with no district suffix, with a nonzero
\* district it has the suffix "/cd:<district>", and the seat of a "sen"
\* term has no suffix whatever its district field holds.
C7_DistrictRule ==
    TermDone =>
        /\ MembershipsNow[1].post_id = post.id
        /\ (term.type = "rep" /\ "district" \in DOMAIN term) =>
              post.division_id =
                  (IF term.district = 0
                   THEN StateDivisionId(term.state)
                   ELSE StateDivisionId(term.state) \o CdSuffix(term.district))
        /\ term.type = "sen" => post.division_id = StateDivisionId(term.state)

C7_Witness ==
    /\ TermDone
    /\ term = [type |-> "rep", state |-> "CA", district |-> 0]
    /\ post.division_id = <<"ocd-division/country:us/state:", "ca">>
    /\ \E k \in 1..Len(out) :
          /\ out[k].kind = "Post"
          /\ out[k].division_id =
                 <<"ocd-division/country:us/state:", "ca", "/cd:", "12">>

\* C8: the term {rep, CA, district 0, Democrat} yields exactly two
\* Memberships: the seat, labelled "Representative for District 0 in CA",
\* on a Post of division "ocd-division/country:us/state:ca", and a party
\* Membership of role "member" in the pseudo-id of "Democratic"; a term
\* without a party yields exactly one Membership.
C8_TermMemberships ==
    TermDone =>
        /\ term = [type |-> "rep", state |-> "CA", district |-> 0,
                   party |-> "Democrat"] =>
              /\ Len(MembershipsNow) = 2
              /\ MembershipsNow[1].label =
                     <<"Representative", " for District ", "0", " in ", "CA">>
              /\ MembershipsNow[1].post_id = post.id
              /\ MembershipsNow[1].person_id = who.id
              /\ post.division_id = <<"ocd-division/country:us/state:", "ca">>
              /\ MembershipsNow[2].role = "member"
              /\ MembershipsNow[2].person_id = who.id
              /\ MembershipsNow[2].organization_id =
                     <<"~", "party", "Democratic">>
        /\ "party" \notin DOMAIN term => Len(MembershipsNow) = 1

C8_Witness ==
    /\ TermDone
    /\ term = [type |-> "rep", state |-> "CA", district |-> 0,
               party |-> "Democrat"]
    /\ Len(MembershipsNow) = 2
    /\ MembershipsNow[2].organization_id = <<"~", "party", "Democratic">>

IsPost(r) == r.kind = "Post"

\* C12: over one run, at most one Post is emitted per division identifier:
\* no two of the records yielded so far are Posts of the same division.
C12_OnePostPerDivision ==
    \A j, k \in 1..Len(out) :
        (IsPost(out[j]) /\ IsPost(out[k])
         /\ out[j].division_id = out[k].division_id) => j = k

\* the positions in out of the records yielded from the current roster
ThisRoster == (rosterStart + 1)..Len(out)

\* C12, per roster: among the records yielded from one roster no two are
\* Posts of the same division, and the seat of every term refers to the
\* one Post of the term's division that this roster has emitted: created
\* by the first term of that division, reused by every later one.
C12_OnePostPerRoster ==
    /\ \A j, k \in ThisRoster :
          (IsPost(out[j]) /\ IsPost(out[k])
           /\ out[j].division_id = out[k].division_id) => j = k
    /\ TermDone =>
          \E k \in ThisRoster :
              /\ IsPost(out[k])
              /\ out[k].division_id = division_id
              /\ out[k].id = MembershipsNow[1].post_id

\* a later term of a division reuses the Post: the step yields the seat
\* Membership and no Post
C12_Witness ==
    /\ TermDone
    /\ term.type = "sen"
    /\ SelectSeq(yieldedNow, IsPost) = <<>>
    /\ \E k \in ThisRoster :
          /\ IsPost(out[k])
          /\ out[k].division_id = StateDivisionId(term.state)
          /\ out[k].id = MembershipsNow[1].post_id

\* C16: the Post a seat Membership refers to belongs to the chamber of the
\* Membership: the two carry the same organization id.
C16_PostInChamber ==
    TermDone =>
        /\ MembershipsNow[1].post_id = post.id
        /\ post.organization_id = MembershipsNow[1].organization_id

\* the Posts yielded by the latest step
PostsNow == SelectSeq(yieldedNow, IsPost)

\* the label and the division identifier a term of its own calls for: a
\* "rep" term without a district names no district
OwnLabel(t) ==
    IF t.type = "sen" THEN <<"Senator for ", t.state>>
    ELSE IF "district" \in DOMAIN t
    THEN <<"Representative", " for District ",
           IF t.district = 12 THEN "12" ELSE "0", " in ", t.state>>
    ELSE <<"Representative", " in ", t.state>>
OwnDivision(t) ==
    IF t.type = "rep" /\ "district" \in DOMAIN t /\ t.district # 0
    THEN StateDivisionId(t.state) \o CdSuffix(t.district)
    ELSE StateDivisionId(t.state)

\* C17: the seat Membership and the Post emitted for a term carry a label
\* and a division identifier derived from that term's own type, state and
\* district; for a "rep" term without a district they name the term's
\* role and state and no district, never the values of an earlier term.
C17_OwnLabelAndDivision ==
    TermDone =>
        /\ "district" \in DOMAIN term \/ term.type = "sen" =>
              MembershipsNow[1].label = OwnLabel(term)
        /\ (term.type = "rep" /\ "district" \notin DOMAIN term) =>
              /\ MembershipsNow[1].label[1] = "Representative"
              /\ \A k \in 1..Len(MembershipsNow[1].label) :
                    MembershipsNow[1].label[k] \notin {"0", "12"}
        /\ \A k \in 1..Len(PostsNow) :
              /\ PostsNow[k].label = MembershipsNow[1].label
              /\ PostsNow[k].division_id = OwnDivision(term)

\* C18: a Person that is emitted carries the birth date of its own roster
\* record: the record's birthday when it has one, and no other record's
\* birthday when it has none.
C18_OwnBirthDate ==
    \A k \in 1..Len(yieldedNow) :
        IsPerson(yieldedNow[k]) =>
            IF "birthday" \in DOMAIN person
            THEN yieldedNow[k].birth_date = person.birthday
            ELSE yieldedNow[k].birth_date \notin Birthdays

====
